---- MODULE Spec2Model ----
(***************************************************************************)
(* A model of the isone_web_api package: the JSON response parser          *)
(* (json_parser.py), the date validator and the daily fuel mix retriever   *)
(* (endpoints.py), the API client and its credential loading               *)
(* (api_client.py) and the endpoint descriptor (endpoint_paths.py).        *)
(*                                                                         *)
(* Each component has its own specification over the shared variables:     *)
(*   SpecFlatten   parse_json_response                                     *)
(*   SpecDate      validate_date_format                                    *)
(*   SpecRetrieve  DailyFuelMixDataRetriever.retrieve_data / get_data      *)
(*   SpecCreds     load_environment_secrets / ISONEClient.__init__         *)
(*   SpecUrl       create_endpoint_url                                     *)
(***************************************************************************)
EXTENDS Integers, Sequences, FiniteSets, TLC

VARIABLES
    data,           \* parse_json_response: the document passed in
    record_path,    \* parse_json_response: the record path passed in
    parsed,         \* parse_json_response: outcome of the call, or NotCalled
    year_zero_padded, \* platform: strftime("%Y") pads years below 1000 to 4 digits
    date_text,      \* validate_date_format: the string passed in
    validated,      \* validate_date_format: outcome of the call, or NotCalled
    environ,        \* os.environ: the variables set, with their values
    dotenv_files,   \* the dotenv files on disk: path -> variables they set
    secrets,        \* load_environment_secrets: outcome of the latest call
    client,         \* the latest ISONEClient constructed, or NoClient
    requests,       \* the GET requests handed to the transport, in order
    call,           \* get_data / retrieve_data: the latest call, or NotCalled
    api_endpoint,   \* create_endpoint_url: the APIEndpoint passed in
    parameters,     \* create_endpoint_url: the parameters passed in
    created_url     \* create_endpoint_url: outcome of the call, or NotCalled

flattenVars == <<data, record_path, parsed>>

dateVars == <<date_text, validated>>

credVars == <<environ, dotenv_files, secrets>>

retrieveVars == <<requests, call>>

urlVars == <<api_endpoint, parameters, created_url>>

vars == <<data, record_path, parsed, year_zero_padded, date_text, validated,
          environ, dotenv_files, secrets, client, requests, call,
          api_endpoint, parameters, created_url>>

\* The value of a result variable before the operation has been called.
NotCalled == [kind |-> "not_called"]

\* A call that returned `value`.
Return(value) == [kind |-> "return", value |-> value]

\* A call that raised the exception class `exc` with argument `arg`.
Raise(exc, arg) == [kind |-> "raise", exc |-> exc, arg |-> arg]

\* The variables of validate_date_format while another component is studied.
IdleDate == date_text = <<>> /\ validated = NotCalled

\* No ISONEClient has been constructed.
NoClient == [kind |-> "no_client"]

\* The variables of the credential loader while another component is studied.
IdleCreds == environ = <<>> /\ dotenv_files = <<>> /\ secrets = NotCalled

\* The variables of the client's requests while another component is studied.
IdleRetrieve == requests = <<>> /\ call = NotCalled

\* The variables of create_endpoint_url while another component is studied.
IdleUrl == api_endpoint = <<>> /\ parameters = <<>> /\ created_url = NotCalled

(***************************************************************************)
(* JSON values as Python sees them after response.json(): a tag and a      *)
(* payload.  dict: a function from keys to values; list: a sequence.       *)
(***************************************************************************)
Num(n) == [t |-> "int", v |-> n]
Str(s) == [t |-> "str", v |-> s]
Bool(b) == [t |-> "bool", v |-> b]
None == [t |-> "None", v |-> 0]
List(s) == [t |-> "list", v |-> s]
Dict(f) == [t |-> "dict", v |-> f]

\* The dict holding the <<key, value>> pairs of `pairs` (keys distinct).
DictOf(pairs) ==
    Dict([k \in {p[1] : p \in pairs} |-> (CHOOSE p \in pairs : p[1] = k)[2]])

EmptyDict == DictOf({})

\* Python truth value testing: `not value` is true of None, False, 0, "",
\* the empty list and the empty dict.
Falsy(value) ==
    CASE value.t = "None" -> TRUE
      [] value.t = "bool" -> ~value.v
      [] value.t = "int" -> value.v = 0
      [] value.t = "str" -> value.v = ""
      [] value.t = "list" -> Len(value.v) = 0
      [] value.t = "dict" -> DOMAIN value.v = {}
      [] OTHER -> FALSE

\* dict.get(key, default)
Get(d, key, default) == IF key \in DOMAIN d.v THEN d.v[key] ELSE default

(***************************************************************************)
(* pandas.json_normalize(list) as called on line 20, with its defaults     *)
(* (sep ".", no record_path, no meta, no max_level).                       *)
(***************************************************************************)
\* A missing cell of a DataFrame.
NaN == [t |-> "NaN", v |-> 0]

\* nested_to_record: the <<column, value>> pairs of one record, a nested
\* dict contributing its own pairs under "<key>." and nothing when empty.
RECURSIVE nested_to_record(_, _)
nested_to_record(d, prefix) ==
    UNION { IF d.v[k].t = "dict"
              THEN nested_to_record(d.v[k], prefix \o k \o ".")
              ELSE {<<prefix \o k, d.v[k]>>} : k \in DOMAIN d.v }

\* DataFrame(list of flat records): the columns are the union of the
\* records' keys, a record without a column holds NaN there.
DataFrame(records) ==
    LET columns == UNION {{p[1] : p \in records[i]} : i \in DOMAIN records}
    IN  [columns |-> columns,
         rows |-> [i \in DOMAIN records |->
                    [c \in columns |->
                       IF \E p \in records[i] : p[1] = c
                         THEN (CHOOSE p \in records[i] : p[1] = c)[2]
                         ELSE NaN]]]

json_normalize(value) ==
    LET rows == IF value.t = "dict" THEN <<value>> ELSE value.v
    IN  IF \E i \in DOMAIN rows : rows[i].t # "dict"
          THEN Raise("AttributeError", "values")
          ELSE Return(DataFrame([i \in DOMAIN rows |->
                                   nested_to_record(rows[i], "")]))

(***************************************************************************)
(* json_parser.py                                                          *)
(***************************************************************************)
\* The loop of lines 15-18 from key number i on, then lines 19-22.
RECURSIVE WalkRecordPath(_, _, _)
WalkRecordPath(nested_data, path, i) ==
    IF i > Len(path)
      THEN IF nested_data.t = "list"
             THEN json_normalize(nested_data)
             ELSE Raise("TypeError", "Nested data is not a list.")
      ELSE IF nested_data.t # "dict"
             THEN Raise("AttributeError", "get")
             ELSE LET next_data == Get(nested_data, path[i], List(<<>>))
                  IN  IF Falsy(next_data)
                        THEN Raise("KeyError", path[i])
                        ELSE WalkRecordPath(next_data, path, i + 1)

\* pd.DataFrame(data) of line 24, kept as the constructor call it is.
DataFrameOf(value) == Return([frame_of |-> value])

\* parse_json_response normalizing the whole document where it should
\* normalize the nested data the walk located.
parse_json_response_whole(document, path) ==
    IF Len(path) > 0
      THEN IF WalkRecordPath(document, path, 1).kind = "return"
             THEN json_normalize(document)
             ELSE WalkRecordPath(document, path, 1)
      ELSE DataFrameOf(document)

parse_json_response(document, path) ==
    IF Len(path) > 0
      THEN WalkRecordPath(document, path, 1)
      ELSE DataFrameOf(document)

(***************************************************************************)
(* Inputs of parse_json_response                                          *)
(***************************************************************************)
\* Longest array of records in a document.
MaxRows == 2

\* The records of an array: x, y and a nested object n, each optional.
Records ==
    { DictOf(px \cup py \cup pn) :
        px \in {{}, {<<"x", Num(1)>>}, {<<"x", Num(2)>>}},
        py \in {{}, {<<"y", Num(3)>>}},
        pn \in {{}, {<<"n", EmptyDict>>},
                {<<"n", DictOf({<<"k", Num(4)>>})>>}} }

\* Array elements: records, and a scalar where a record should be.
Elements == Records \cup {Num(7)}

Arrays == UNION { {List(s) : s \in [1..n -> Elements]} : n \in 0..MaxRows }

Scalars == {Num(0), Num(5), Str(""), Str("s"), None, Bool(FALSE), Bool(TRUE)}

Mappings == {EmptyDict, DictOf({<<"x", Num(1)>>})}

Terminals == Arrays \cup Scalars \cup Mappings

Documents ==
    {DictOf({<<"A", DictOf({<<"B", t>>})>>}) : t \in Terminals}
      \cup {DictOf({<<"A", t>>}) : t \in Terminals}
      \cup {List(<<>>), Str("s"), EmptyDict}

RecordPaths == {<<>>, <<"A">>, <<"A", "B">>, <<"A", "C">>, <<"C", "B">>}

\* The variables of parse_json_response while another component is studied.
IdleFlatten == data = EmptyDict /\ record_path = <<>> /\ parsed = NotCalled

InitFlatten ==
    /\ data \in Documents
    /\ record_path \in RecordPaths
    /\ parsed = NotCalled
    /\ year_zero_padded = TRUE
    /\ IdleDate /\ IdleCreds /\ IdleRetrieve /\ IdleUrl /\ client = NoClient

\* A call parse_json_response(data, record_path).
ParseJsonResponse ==
    /\ parsed = NotCalled
    /\ parsed' = parse_json_response(data, record_path)
    /\ UNCHANGED <<data, record_path, year_zero_padded, dateVars, credVars,
                   client, retrieveVars, urlVars>>

NextFlatten == ParseJsonResponse

SpecFlatten == InitFlatten /\ [][NextFlatten]_vars

(***************************************************************************)
(* Claims about parse_json_response                                       *)
(***************************************************************************)
\* The value reached in `document` after the first n keys of `path`, when
\* each of them is present.
RECURSIVE Reached(_, _, _)
Reached(document, path, n) ==
    IF n = 0 THEN document ELSE Reached(document, path, n - 1).v[path[n]]

\* Each of the first n keys of `path` is a key of the object reached at
\* its step.
RECURSIVE KeysPresent(_, _, _)
KeysPresent(document, path, n) ==
    \/ n = 0
    \/ /\ KeysPresent(document, path, n - 1)
       /\ Reached(document, path, n - 1).t = "dict"
       /\ path[n] \in DOMAIN Reached(document, path, n - 1).v

\* Some key of `path` is absent from the object reached at its step.
SomeKeyAbsent(document, path) ==
    \E i \in 1..Len(path) :
        /\ KeysPresent(document, path, i - 1)
        /\ Reached(document, path, i - 1).t = "dict"
        /\ path[i] \notin DOMAIN Reached(document, path, i - 1).v

\* Some step before the final key yields an empty or falsy value.
SomeIntermediateFalsy(document, path) ==
    \E i \in 1..(Len(path) - 1) :
        /\ KeysPresent(document, path, i)
        /\ Falsy(Reached(document, path, i))

FlattenCalled == parsed # NotCalled /\ Len(record_path) > 0

PathNotFound == parsed.kind = "raise" /\ parsed.exc = "KeyError"

ShapeError == parsed.kind = "raise" /\ parsed.exc = "TypeError"

\* C1: when every key of a non-empty record path is present and the value
\* after the last key is an empty array, the call returns a zero-row table
\* and raises nothing.
C1_EmptyArrayYieldsZeroRows ==
    (/\ FlattenCalled
     /\ KeysPresent(data, record_path, Len(record_path))
     /\ Reached(data, record_path, Len(record_path)) = List(<<>>))
        => (parsed.kind = "return" /\ Len(parsed.value.rows) = 0)

\* C2: the call fails with PathNotFound whenever a key is absent from the
\* object reached at its step or a step before the final key yields a falsy
\* value, and never fails with PathNotFound when every key is present and
\* every value before the final key is non-empty.
C2_PathNotFoundExactly ==
    FlattenCalled =>
        /\ (SomeKeyAbsent(data, record_path)
              \/ SomeIntermediateFalsy(data, record_path)) => PathNotFound
        /\ (/\ KeysPresent(data, record_path, Len(record_path))
            /\ ~SomeIntermediateFalsy(data, record_path)) => ~PathNotFound

\* C3: when every key of a non-empty record path is present and the value
\* after the last key is not an array, the call fails with ShapeError.
C3_NonArrayIsShapeError ==
    (/\ FlattenCalled
     /\ KeysPresent(data, record_path, Len(record_path))
     /\ Reached(data, record_path, Len(record_path)).t # "list")
        => ShapeError

\* The fields of one record: its scalar keys with their values, and for a
\* nested object its keys joined to the parent key by ".".
FieldsOf(record) ==
    {<<k, record.v[k]>> : k \in {j \in DOMAIN record.v : record.v[j].t # "dict"}}
      \cup UNION { {<<k \o "." \o j, record.v[k].v[j]>> : j \in DOMAIN record.v[k].v} :
                     k \in {j \in DOMAIN record.v : record.v[j].t = "dict"} }

FieldNames(record) == {f[1] : f \in FieldsOf(record)}

\* C4: a table returned for a non-empty record path has one row per element
\* of the array at the record path, row i holds the fields of element i, the
\* columns are the union of the field names of all records, and a record
\* lacking a field has an empty cell in that column.
C4_TableMatchesArray ==
    (FlattenCalled /\ parsed.kind = "return") =>
        /\ KeysPresent(data, record_path, Len(record_path))
        /\ Reached(data, record_path, Len(record_path)).t = "list"
        /\ LET array == Reached(data, record_path, Len(record_path)).v
               table == parsed.value
           IN  /\ Len(table.rows) = Len(array)
               /\ table.columns = UNION {FieldNames(array[i]) : i \in DOMAIN array}
               /\ \A i \in DOMAIN array :
                    /\ DOMAIN table.rows[i] = table.columns
                    /\ \A f \in FieldsOf(array[i]) : table.rows[i][f[1]] = f[2]
                    /\ \A c \in table.columns \ FieldNames(array[i]) :
                         table.rows[i][c] = NaN

\* A two-row table with a column that one record lacks and a column that
\* comes from a nested object.
C4_Witness ==
    /\ FlattenCalled
    /\ parsed.kind = "return"
    /\ Len(parsed.value.rows) = 2
    /\ {"x", "y", "n.k"} \subseteq parsed.value.columns
    /\ parsed.value.rows[1]["x"] = Num(1)
    /\ parsed.value.rows[1]["y"] = NaN
    /\ parsed.value.rows[2]["y"] = Num(3)

(***************************************************************************)
(* endpoints.py: validate_date_format.  A string is a sequence of          *)
(* characters.                                                             *)
(***************************************************************************)
Digits == {"0", "1", "2", "3", "4", "5", "6", "7", "8", "9"}

DigitValue(c) ==
    CASE c = "0" -> 0 [] c = "1" -> 1 [] c = "2" -> 2 [] c = "3" -> 3
      [] c = "4" -> 4 [] c = "5" -> 5 [] c = "6" -> 6 [] c = "7" -> 7
      [] c = "8" -> 8 [] c = "9" -> 9

DigitChar(n) ==
    CASE n = 0 -> "0" [] n = 1 -> "1" [] n = 2 -> "2" [] n = 3 -> "3"
      [] n = 4 -> "4" [] n = 5 -> "5" [] n = 6 -> "6" [] n = 7 -> "7"
      [] n = 8 -> "8" [] n = 9 -> "9"

\* The character at position p of text, "" past its end.
At(text, p) == IF p \in DOMAIN text THEN text[p] ELSE ""

\* int() of the digits of text from position p to position q.
RECURSIVE IntOf(_, _, _)
IntOf(text, p, q) ==
    IF q < p THEN 0 ELSE 10 * IntOf(text, p, q - 1) + DigitValue(text[q])

\* %Y of strptime: the regular expression \d\d\d\d at position 1.
YearMatch(text) == \A p \in 1..4 : At(text, p) \in Digits

\* %m of strptime: 1[0-2] | 0[1-9] | [1-9] tried in this order at position
\* p; the length alternative number alt matches, 0 when it does not.
MonthMatch(text, p, alt) ==
    CASE alt = 1 ->
           IF At(text, p) = "1" /\ At(text, p + 1) \in {"0", "1", "2"}
             THEN 2 ELSE 0
      [] alt = 2 ->
           IF At(text, p) = "0" /\ At(text, p + 1) \in Digits \ {"0"}
             THEN 2 ELSE 0
      [] alt = 3 -> IF At(text, p) \in Digits \ {"0"} THEN 1 ELSE 0

\* %d of strptime: 3[0-1] | [1-2]\d | 0[1-9] | [1-9] | " "[1-9].
DayMatch(text, p, alt) ==
    CASE alt = 1 ->
           IF At(text, p) = "3" /\ At(text, p + 1) \in {"0", "1"}
             THEN 2 ELSE 0
      [] alt = 2 ->
           IF At(text, p) \in {"1", "2"} /\ At(text, p + 1) \in Digits
             THEN 2 ELSE 0
      [] alt = 3 ->
           IF At(text, p) = "0" /\ At(text, p + 1) \in Digits \ {"0"}
             THEN 2 ELSE 0
      [] alt = 4 -> IF At(text, p) \in Digits \ {"0"} THEN 1 ELSE 0
      [] alt = 5 ->
           IF At(text, p) = " " /\ At(text, p + 1) \in Digits \ {"0"}
             THEN 2 ELSE 0

\* The smallest number of a non-empty set of numbers.
Least(S) == CHOOSE n \in S : \A m \in S : n <= m

\* re.match of the compiled "%Y%m%d": the first alternative of the month
\* after which some alternative of the day matches, and then the first such
\* alternative of the day.  [found, month_end, day_end].
FormatMatch(text) ==
    LET dayAlts(p) == {a \in 1..5 : DayMatch(text, p, a) > 0}
        monthAlts == {a \in 1..3 :
                        /\ MonthMatch(text, 5, a) > 0
                        /\ dayAlts(5 + MonthMatch(text, 5, a)) # {}}
    IN  IF ~YearMatch(text) \/ monthAlts = {}
          THEN [found |-> FALSE, month_end |-> 0, day_end |-> 0]
          ELSE LET month_end == 4 + MonthMatch(text, 5, Least(monthAlts))
                   day_len == DayMatch(text, month_end + 1,
                                       Least(dayAlts(month_end + 1)))
               IN  [found |-> TRUE, month_end |-> month_end,
                    day_end |-> month_end + day_len]

IsLeap(year) == year % 4 = 0 /\ (year % 100 # 0 \/ year % 400 = 0)

DaysInMonth(year, month) ==
    CASE month \in {4, 6, 9, 11} -> 30
      [] month = 2 -> IF IsLeap(year) THEN 29 ELSE 28
      [] OTHER -> 31

\* datetime.strptime(text, "%Y%m%d"): the parsed date, or ValueError when
\* the text does not match, has characters left over, or names no date.
strptime(text) ==
    LET m == FormatMatch(text)
    IN  IF ~m.found
          THEN Raise("ValueError", "does not match format")
          ELSE IF m.day_end # Len(text)
                 THEN Raise("ValueError", "unconverted data remains")
                 ELSE LET year == IntOf(text, 1, 4)
                          month == IntOf(text, 5, m.month_end)
                          day == IF text[m.month_end + 1] = " "
                                   THEN IntOf(text, m.month_end + 2, m.day_end)
                                   ELSE IntOf(text, m.month_end + 1, m.day_end)
                      IN  IF year < 1
                            THEN Raise("ValueError", "year is out of range")
                            ELSE IF day > DaysInMonth(year, month)
                                   THEN Raise("ValueError",
                                              "day is out of range for month")
                                   ELSE Return([year |-> year, month |-> month,
                                                day |-> day])

\* The decimal digits of n, without leading zeros.
RECURSIVE Decimal(_)
Decimal(n) ==
    IF n < 10 THEN <<DigitChar(n)>>
              ELSE Append(Decimal(n \div 10), DigitChar(n % 10))

\* The decimal digits of n, zero-filled to `width` characters.
RECURSIVE ZeroFilled(_, _)
ZeroFilled(n, width) ==
    IF width = 0 THEN <<>>
                 ELSE Append(ZeroFilled(n \div 10, width - 1), DigitChar(n % 10))

\* date.strftime("%Y%m%d").  The C library renders %Y: four zero-filled
\* digits where padded, the bare number (glibc) where not.
strftime(date, padded) ==
    (IF padded \/ date.year >= 1000
       THEN ZeroFilled(date.year, 4) ELSE Decimal(date.year))
      \o ZeroFilled(date.month, 2) \o ZeroFilled(date.day, 2)

validate_date_format(text, padded) ==
    LET parsed_date == strptime(text)
    IN  IF parsed_date.kind = "raise"
          THEN Raise("ValueError", "not in the correct format YYYYMMDD")
          ELSE IF strftime(parsed_date.value, padded) # text
                 THEN Raise("ValueError", "not in the strict format YYYYMMDD")
                 ELSE Return(None)

(***************************************************************************)
(* Inputs of validate_date_format                                         *)
(***************************************************************************)
YearTexts ==
    { <<"2", "0", "2", "3">>, <<"2", "0", "2", "4">>, <<"1", "9", "0", "0">>,
      <<"2", "0", "0", "0">>, <<"0", "9", "9", "9">>, <<"0", "0", "0", "0">>,
      <<"2", "0", "2">>, <<"2", "0", "x", "3">> }

MonthTexts ==
    { <<"0", "1">>, <<"0", "2">>, <<"0", "4">>, <<"1", "2">>, <<"1", "3">>,
      <<"0", "0">>, <<"1">>, <<"-", "1", "2">>, <<" ", "2">> }

DayTexts ==
    { <<"0", "1">>, <<"2", "8">>, <<"2", "9">>, <<"3", "0">>, <<"3", "1">>,
      <<"3", "2">>, <<"0", "0">>, <<"1">>, <<"3">>, <<" ", "1">>,
      <<"-", "0", "1">>, <<"0", "1", " ">>, <<>> }

DateTexts == {y \o m \o d : y \in YearTexts, m \in MonthTexts, d \in DayTexts}

InitDate ==
    /\ year_zero_padded \in BOOLEAN
    /\ date_text \in DateTexts
    /\ validated = NotCalled
    /\ IdleFlatten /\ IdleCreds /\ IdleRetrieve /\ IdleUrl /\ client = NoClient

\* A call validate_date_format(date_text).
ValidateDateFormat ==
    /\ validated = NotCalled
    /\ validated' = validate_date_format(date_text, year_zero_padded)
    /\ UNCHANGED <<date_text, year_zero_padded, flattenVars, credVars, client,
                   retrieveVars, urlVars>>

NextDate == ValidateDateFormat

SpecDate == InitDate /\ [][NextDate]_vars

\* The text is exactly 8 ASCII digits naming a date of the calendar, year
\* 0001 to 9999, in zero-padded YYYYMMDD form.
IsCanonicalDate(text) ==
    /\ Len(text) = 8
    /\ \A p \in 1..8 : text[p] \in Digits
    /\ IntOf(text, 1, 4) >= 1
    /\ IntOf(text, 5, 6) \in 1..12
    /\ IntOf(text, 7, 8) \in 1..DaysInMonth(IntOf(text, 1, 4), IntOf(text, 5, 6))

\* C5: validate_date_format succeeds silently exactly for the strings that
\* are 8 ASCII digits forming a real calendar date in zero-padded YYYYMMDD
\* form, and fails with InvalidDateFormat (ValueError) for every other.
C5_ValidatesExactlyCanonicalDates ==
    validated # NotCalled =>
        IF IsCanonicalDate(date_text)
          THEN validated = Return(None)
          ELSE validated.kind = "raise" /\ validated.exc = "ValueError"

(***************************************************************************)
(* api_client.py: load_environment_secrets and ISONEClient.__init__        *)
(***************************************************************************)
\* dotenv.load_dotenv(path): each variable of the file that os.environ does
\* not hold yet is set (override is off); a missing file sets nothing.
load_dotenv(env, files, path) ==
    LET file == IF path \in DOMAIN files THEN files[path] ELSE <<>>
    IN  [k \in DOMAIN env \cup DOMAIN file |->
           IF k \in DOMAIN env THEN env[k] ELSE file[k]]

\* os.getenv(name): the value, or None (the record, never a string).
getenv(env, name) == IF name \in DOMAIN env THEN Str(env[name]) ELSE None

\* load_environment_secrets refusing only when both variables are missing.
load_environment_secrets_and(env, files, dotenv_path) ==
    LET loaded == load_dotenv(env, files,
                              IF dotenv_path # "" THEN dotenv_path ELSE ".env")
        api_username == getenv(loaded, "API_USERNAME")
        api_password == getenv(loaded, "API_PASSWORD")
    IN  [environ |-> loaded,
         outcome |->
           IF Falsy(api_username) /\ Falsy(api_password)
             THEN Raise("RuntimeError",
                        "API credentials are required but not set.")
             ELSE Return(<<api_username.v, api_password.v>>)]

\* load_environment_secrets(dotenv_path): [environ, outcome], the outcome
\* being the pair (api_username, api_password) or RuntimeError.
\* dotenv_path "" stands for the default None.
load_environment_secrets(env, files, dotenv_path) ==
    LET loaded == load_dotenv(env, files,
                              IF dotenv_path # "" THEN dotenv_path ELSE ".env")
        api_username == getenv(loaded, "API_USERNAME")
        api_password == getenv(loaded, "API_PASSWORD")
    IN  [environ |-> loaded,
         outcome |->
           IF Falsy(api_username) \/ Falsy(api_password)
             THEN Raise("RuntimeError",
                        "API credentials are required but not set.")
             ELSE Return(<<api_username.v, api_password.v>>)]

\* HTTPBasicAuth(username, password)
HTTPBasicAuth(username, password) ==
    [username |-> username, password |-> password]

\* ISONEClient(): [environ, outcome], the outcome being the new client or
\* the error of load_environment_secrets.
ISONEClient_init(env, files) ==
    LET loaded == load_environment_secrets(env, files, "")
    IN  [environ |-> loaded.environ,
         outcome |->
           IF loaded.outcome.kind = "raise"
             THEN loaded.outcome
             ELSE Return([kind |-> "client",
                          auth |-> HTTPBasicAuth(loaded.outcome.value[1],
                                                 loaded.outcome.value[2])])]

CredentialNames == {"API_USERNAME", "API_PASSWORD"}

\* What the process environment or a dotenv file may hold: any of the two
\* variables, each empty or set.
Settings(value) ==
    UNION {[names -> {"", value}] : names \in SUBSET CredentialNames}

DotenvPaths == {".env", "alt.env"}

InitCreds ==
    /\ environ \in Settings("from_environment")
    /\ dotenv_files \in [DotenvPaths -> Settings("from_dotenv")]
    /\ secrets = NotCalled
    /\ client = NoClient
    /\ year_zero_padded = TRUE
    /\ IdleFlatten /\ IdleDate /\ IdleRetrieve /\ IdleUrl

\* A call load_environment_secrets(dotenv_path).
LoadEnvironmentSecrets ==
    \E dotenv_path \in {""} \cup DotenvPaths :
        LET r == load_environment_secrets(environ, dotenv_files, dotenv_path)
        IN  /\ environ' = r.environ
            /\ secrets' = r.outcome
            /\ UNCHANGED <<dotenv_files, client, flattenVars, dateVars,
                           year_zero_padded, retrieveVars, urlVars>>

\* A construction ISONEClient(); a failed one leaves no client behind.
NewISONEClient ==
    LET r == ISONEClient_init(environ, dotenv_files)
    IN  /\ environ' = r.environ
        /\ secrets' = IF r.outcome.kind = "raise" THEN r.outcome
                      ELSE Return(<<r.outcome.value.auth.username,
                                    r.outcome.value.auth.password>>)
        /\ client' = IF r.outcome.kind = "raise" THEN NoClient
                     ELSE r.outcome.value
        /\ UNCHANGED <<dotenv_files, flattenVars, dateVars, year_zero_padded,
                       retrieveVars, urlVars>>

NextCreds == LoadEnvironmentSecrets \/ NewISONEClient

SpecCreds == InitCreds /\ [][NextCreds]_vars

\* The variable is unset or empty in os.environ.
Missing(name) == name \notin DOMAIN environ \/ environ[name] = ""

\* C9: loading the credentials fails with MissingCredentials (RuntimeError)
\* whenever API_USERNAME or API_PASSWORD is unset or empty, so a client
\* always holds a full credential pair; when both are non-empty the pair
\* (username, password) is returned.
C9_CredentialsRequired ==
    /\ secrets # NotCalled =>
         IF Missing("API_USERNAME") \/ Missing("API_PASSWORD")
           THEN secrets.kind = "raise" /\ secrets.exc = "RuntimeError"
           ELSE secrets = Return(<<environ["API_USERNAME"],
                                   environ["API_PASSWORD"]>>)
    /\ client # NoClient =>
         /\ client.auth.username # "" /\ client.auth.password # ""
         /\ ~Missing("API_USERNAME") /\ ~Missing("API_PASSWORD")
         /\ client.auth = [username |-> environ["API_USERNAME"],
                           password |-> environ["API_PASSWORD"]]

\* A load that failed although the user name was set: the password was set
\* to the empty string.
C9_Witness ==
    /\ secrets # NotCalled /\ secrets.kind = "raise"
    /\ ~Missing("API_USERNAME")
    /\ "API_PASSWORD" \in DOMAIN environ /\ environ["API_PASSWORD"] = ""

(***************************************************************************)
(* api_client.py: ISONEClient.get_data                                     *)
(***************************************************************************)
BASE_URL == "https://webservices.iso-ne.com/api/v1.1"

\* What requests.get may come back with: an exception of the transport, or
\* a response, with its status, its text and what response.json() makes of
\* the text.
TransportError == [kind |-> "error", exc |-> "ConnectionError"]

Response(status, body) == [kind |-> "response", status |-> status, body |-> body]

\* response.raise_for_status() raises HTTPError for a status of 400 to 599,
\* and for no other.
RaisesForStatus(status) == 400 <= status /\ status < 600

\* get_data sending its request a second time when the transport fails.
get_data_twice(api_client, endpoint, params, file_format, answer) ==
    LET headers == [Accept |-> "application/" \o file_format]
        url == BASE_URL \o "/" \o endpoint \o "." \o file_format
        request == [method |-> "GET", url |-> url, auth |-> api_client.auth,
                    headers |-> headers, params |-> params]
    IN  [sent |-> IF answer.kind = "error" THEN <<request, request>>
                                           ELSE <<request>>,
         outcome |->
           IF answer.kind = "error"
             THEN Raise(answer.exc, url)
             ELSE IF RaisesForStatus(answer.status)
                    THEN Raise("HTTPError", answer.status)
                    ELSE IF file_format = "json"
                           THEN answer.body.json
                           ELSE Return(Str(answer.body.text))]

\* ISONEClient.get_data(endpoint, params, file_format) when the transport
\* answers with `answer`: the request sent and the outcome of the call.
get_data(api_client, endpoint, params, file_format, answer) ==
    LET headers == [Accept |-> "application/" \o file_format]
        url == BASE_URL \o "/" \o endpoint \o "." \o file_format
        request == [method |-> "GET", url |-> url, auth |-> api_client.auth,
                    headers |-> headers, params |-> params]
    IN  [sent |-> <<request>>,
         outcome |->
           IF answer.kind = "error"
             THEN Raise(answer.exc, url)
             ELSE IF RaisesForStatus(answer.status)
                    THEN Raise("HTTPError", answer.status)
                    ELSE IF file_format = "json"
                           THEN answer.body.json
                           ELSE Return(Str(answer.body.text))]

(***************************************************************************)
(* endpoints.py: DailyFuelMixDataRetriever.retrieve_data                   *)
(***************************************************************************)
\* The Python string of a sequence of characters.
RECURSIVE Joined(_)
Joined(text) ==
    IF text = <<>> THEN "" ELSE text[1] \o Joined(Tail(text))

\* retrieve_data validating the day only after the client was called.
retrieve_data_unchecked(api_client, day, padded, answer) ==
    LET checked == validate_date_format(day, padded)
        endpoint == "genfuelmix/day/" \o Joined(day)
        got == get_data(api_client, endpoint, None, "json", answer)
    IN  IF checked.kind = "raise"
          THEN [sent |-> got.sent, outcome |-> checked]
          ELSE got

\* retrieve_data(day) when the transport would answer with `answer`: the
\* requests sent and the outcome of the call.
retrieve_data(api_client, day, padded, answer) ==
    LET checked == validate_date_format(day, padded)
    IN  IF checked.kind = "raise"
          THEN [sent |-> <<>>, outcome |-> checked]
          ELSE LET endpoint == "genfuelmix/day/" \o Joined(day)
               IN  get_data(api_client, endpoint, None, "json", answer)

(***************************************************************************)
(* Inputs of get_data and retrieve_data                                    *)
(***************************************************************************)
\* Most requests the transport log holds.
MaxRequests == 2

FuelMixDocument ==
    DictOf({<<"GenFuelMixes",
              DictOf({<<"GenFuelMix",
                        List(<<DictOf({<<"FuelCategory", Str("Hydro")>>,
                                       <<"GenMw", Num(5)>>})>>)>>})>>})

\* Response bodies: a JSON document, text that is no JSON, no text at all.
Bodies ==
    { [text |-> "{\"GenFuelMixes\": ...}", json |-> Return(FuelMixDocument)],
      [text |-> "<html>", json |-> Raise("JSONDecodeError", "<html>")],
      [text |-> "", json |-> Raise("JSONDecodeError", "")] }

Statuses == {200, 204, 300, 404, 500}

Answers ==
    {TransportError} \cup {Response(st, b) : st \in Statuses, b \in Bodies}

Days ==
    { <<"2", "0", "2", "3", "1", "2", "0", "1">>,
      <<"2", "0", "2", "4", "0", "2", "2", "9">>,
      <<"0", "9", "9", "9", "1", "2", "3", "1">>,
      <<"2", "0", "2", "3", "1", "3", "0", "1">>,
      <<"2", "0", "2", "3", "-", "1", "2", "-", "0", "1">>,
      <<"2", "0", "2", "3", "1", "2", "1">> }

Endpoints == {"genfuelmix/day/20231201", "genfuelmix/current"}

Clients ==
    { [kind |-> "client", auth |-> HTTPBasicAuth("user123", "pass123")] }

InitRetrieve ==
    /\ client \in Clients
    /\ year_zero_padded \in BOOLEAN
    /\ requests = <<>>
    /\ call = NotCalled
    /\ IdleFlatten /\ IdleDate /\ IdleCreds /\ IdleUrl

\* A call client.get_data(endpoint, file_format=file_format).
GetData ==
    /\ Len(requests) < MaxRequests
    /\ \E endpoint \in Endpoints, file_format \in {"json", "xml"},
          answer \in Answers :
        LET r == get_data(client, endpoint, None, file_format, answer)
        IN  /\ requests' = requests \o r.sent
            /\ call' = [kind |-> "get_data", before |-> Len(requests),
                        endpoint |-> endpoint, file_format |-> file_format,
                        answer |-> answer, outcome |-> r.outcome]
    /\ UNCHANGED <<client, year_zero_padded, flattenVars, dateVars, credVars,
                   urlVars>>

\* A call DailyFuelMixDataRetriever(client).retrieve_data(day).
RetrieveData ==
    /\ Len(requests) < MaxRequests
    /\ \E day \in Days, answer \in Answers :
        LET r == retrieve_data(client, day, year_zero_padded, answer)
        IN  /\ requests' = requests \o r.sent
            /\ call' = [kind |-> "retrieve_data", before |-> Len(requests),
                        day |-> day,
                        answer |-> IF r.sent = <<>> THEN NotCalled ELSE answer,
                        outcome |-> r.outcome]
    /\ UNCHANGED <<client, year_zero_padded, flattenVars, dateVars, credVars,
                   urlVars>>

NextRetrieve == GetData \/ RetrieveData

SpecRetrieve == InitRetrieve /\ [][NextRetrieve]_vars

Retrieved == call.kind = "retrieve_data"

\* The day of the latest retrieve_data call fails validation.
DayRefused ==
    validate_date_format(call.day, year_zero_padded).kind = "raise"

\* C6: in retrieve_data the date is validated before any network activity:
\* for a day that fails validation the call raises InvalidDateFormat
\* (ValueError) and no GET request is issued.
C6_NoRequestForInvalidDay ==
    (Retrieved /\ DayRefused) =>
        /\ call.outcome = validate_date_format(call.day, year_zero_padded)
        /\ call.outcome.kind = "raise" /\ call.outcome.exc = "ValueError"
        /\ Len(requests) = call.before

\* A refused day after a request of an earlier call: the log did not grow.
C6_Witness ==
    /\ Retrieved /\ DayRefused
    /\ call.before = 1 /\ Len(requests) = 1
    /\ ~IsCanonicalDate(call.day)

\* C7: for a valid day d, one call of retrieve_data(d) issues exactly one
\* GET request, whether it succeeds or fails, to the base URL joined with
\* genfuelmix/day/<d>.json with the Accept header application/json, and
\* returns what the client returned: the decoded body of the response.
C7_OneGetPerRetrieval ==
    (Retrieved /\ ~DayRefused) =>
        /\ Len(requests) = call.before + 1
        /\ requests[Len(requests)].method = "GET"
        /\ requests[Len(requests)].url =
             "https://webservices.iso-ne.com/api/v1.1/genfuelmix/day/"
               \o Joined(call.day) \o ".json"
        /\ requests[Len(requests)].headers = [Accept |-> "application/json"]
        /\ call.outcome.kind = "return" =>
             /\ call.answer.kind = "response"
             /\ call.outcome = call.answer.body.json

\* A retrieval of 20231201 whose one request the transport failed.
C7_Witness ==
    /\ Retrieved /\ ~DayRefused
    /\ call.day = <<"2", "0", "2", "3", "1", "2", "0", "1">>
    /\ call.answer = TransportError
    /\ call.outcome.kind = "raise"
    /\ requests[Len(requests)].url =
         "https://webservices.iso-ne.com/api/v1.1/genfuelmix/day/20231201.json"

\* The transport answered the latest call with a status outside 200..299.
AnsweredNon2xx ==
    /\ call.kind \in {"get_data", "retrieve_data"}
    /\ call.answer # NotCalled
    /\ call.answer.kind = "response"
    /\ call.answer.status \notin 200..299

\* C8: when the transport answers a get_data / retrieve_data call with a
\* non-2xx status, the call ends in RequestFailed (HTTPError); no value is
\* returned and the response body is never parsed.
C8_Non2xxIsRequestFailed ==
    AnsweredNon2xx =>
        /\ call.outcome.kind = "raise"
        /\ call.outcome.exc = "HTTPError"

(***************************************************************************)
(* endpoint_paths.py.  A format string is a sequence of parts: literal     *)
(* text, or a replacement field {name}; a dict of parameters is held as    *)
(* the sequence of its <<key, value>> items in insertion order.            *)
(***************************************************************************)
Literal(text) == [part |-> "literal", text |-> text]

Field(name) == [part |-> "field", name |-> name]

APIEndpoint(url, path) ==
    [endpoint_url |-> url, json_payload_record_path |-> path]

DailyFuelMix ==
    APIEndpoint(<<Literal("genfuelmix/day/"), Field("day")>>,
                <<"GenFuelMixes", "GenFuelMix">>)

\* The default of the `parameters` argument: the class dict itself.
DictClass == [type |-> "type", items |-> <<>>]

\* A dict of strings with these items.
ParameterDict(items) == [type |-> "dict", items |-> items]

\* str(value) of the one positional argument of format: a dict of strings,
\* or the class dict.
RECURSIVE ItemsRepr(_)
ItemsRepr(items) ==
    IF items = <<>> THEN ""
    ELSE "'" \o items[1][1] \o "': '" \o items[1][2] \o "'"
           \o (IF Len(items) > 1 THEN ", " ELSE "") \o ItemsRepr(Tail(items))

StrOf(value) ==
    IF value.type = "type" THEN "<class 'dict'>"
                           ELSE "{" \o ItemsRepr(value.items) \o "}"

\* The field names that index the positional arguments: "" numbers them
\* automatically, "0" names the first.
PositionalNames == {"", "0"}

\* template.format(*args) with no keyword arguments, from part number i on,
\* `text` being what the parts before it produced.  A named field is looked
\* up among the keyword arguments, of which there are none: KeyError.
RECURSIVE FormatFrom(_, _, _, _)
FormatFrom(template, args, i, text) ==
    IF i > Len(template) THEN Return(text)
    ELSE LET part == template[i]
         IN  IF part.part = "literal"
               THEN FormatFrom(template, args, i + 1, text \o part.text)
               ELSE IF part.name \notin PositionalNames
                      THEN Raise("KeyError", part.name)
                      ELSE IF \E j \in 1..Len(template) :
                                /\ template[j].part = "field"
                                /\ template[j].name \in PositionalNames
                                /\ template[j].name # part.name
                             THEN Raise("ValueError",
                                        "cannot switch field numbering")
                             ELSE IF part.name = ""
                                     /\ \E j \in 1..(i - 1) :
                                          template[j].part = "field"
                                    THEN Raise("IndexError",
                                               "Replacement index out of range")
                                    ELSE FormatFrom(template, args, i + 1,
                                                    text \o StrOf(args[1]))

\* str.format(*args)
Format(template, args) == FormatFrom(template, args, 1, "")

\* create_endpoint_url(endpoint, parameters): the dict is handed to format
\* as its one positional argument.
create_endpoint_url(descriptor, params) ==
    Format(descriptor.endpoint_url, <<params>>)

(***************************************************************************)
(* Inputs of create_endpoint_url                                           *)
(***************************************************************************)
\* Most parts of a path template.
MaxParts == 2

Parts ==
    { Literal("genfuelmix/day/"), Literal("/"), Field("day"),
      Field("location"), Field(""), Field("0") }

Templates == UNION { [1..n -> Parts] : n \in 1..MaxParts }

ParameterDicts ==
    { ParameterDict(items) : items \in
        { <<>>, << <<"day", "20231201">> >>, << <<"day", "20240229">> >>,
          << <<"location", "4000">> >>,
          << <<"day", "20231201">>, <<"location", "4000">> >> } }

InitUrl ==
    /\ api_endpoint \in {APIEndpoint(t, <<"GenFuelMixes", "GenFuelMix">>) :
                       t \in Templates}
    /\ parameters \in ParameterDicts \cup {DictClass}
    /\ created_url = NotCalled
    /\ year_zero_padded = TRUE
    /\ client = NoClient
    /\ IdleFlatten /\ IdleDate /\ IdleCreds /\ IdleRetrieve

\* A call create_endpoint_url(api_endpoint, parameters).
CreateEndpointUrl ==
    /\ created_url = NotCalled
    /\ created_url' = create_endpoint_url(api_endpoint, parameters)
    /\ UNCHANGED <<api_endpoint, parameters, year_zero_padded, client,
                   flattenVars, dateVars, credVars, retrieveVars>>

NextUrl == CreateEndpointUrl

SpecUrl == InitUrl /\ [][NextUrl]_vars

\* The placeholders of a path template.
Placeholders(template) ==
    {template[i].name : i \in {j \in DOMAIN template : template[j].part = "field"}}

\* The keys of a parameters dict.
Keys(params) == {params.items[i][1] : i \in DOMAIN params.items}

ValueOf(params, key) ==
    params.items[CHOOSE i \in DOMAIN params.items : params.items[i][1] = key][2]

\* The template with each placeholder replaced by its parameter.
RECURSIVE Substituted(_, _)
Substituted(template, params) ==
    IF template = <<>> THEN ""
    ELSE (IF template[1].part = "literal"
            THEN template[1].text
            ELSE ValueOf(params, template[1].name))
           \o Substituted(Tail(template), params)

\* C10: when `parameters` supplies a value for every placeholder of the
\* endpoint's path template, create_endpoint_url returns the template with
\* each placeholder replaced by its value and leaves the descriptor as it
\* was; it fails only when a placeholder has no supplied parameter.
C10_CreateEndpointUrlSubstitutes ==
    (/\ created_url # NotCalled
     /\ parameters # DictClass
     /\ Placeholders(api_endpoint.endpoint_url) \cap PositionalNames = {})
        => IF Placeholders(api_endpoint.endpoint_url) \subseteq Keys(parameters)
             THEN created_url =
                    Return(Substituted(api_endpoint.endpoint_url, parameters))
             ELSE created_url.kind = "raise"

====
